---- MODULE Spec2Model ----
(***************************************************************************)
(* chardev: a character device with one 1024-byte message buffer, opened   *)
(* by one process at a time (src/chardev/linux/chardev.c).                 *)
(*                                                                         *)
(* The state is the module's static data (g_message, g_message_size,       *)
(* g_number_open, mutex_chardev), each process's position in the open and  *)
(* release callbacks, and a record of the callback step taken last (its    *)
(* arguments and what it returned to the caller).  rd is the state of a    *)
(* caller that reads the message back sequentially (see ReadLoop).         *)
(***************************************************************************)
EXTENDS Integers, Sequences, FiniteSets

VARIABLES g_message, g_message_size, g_number_open, mutex_chardev, pc, last, nwrites, rd

vars == <<g_message, g_message_size, g_number_open, mutex_chardev, pc, last, nwrites, rd>>

-----------------------------------------------------------------------------
(* Program constants *)

\* sizeof(g_message)
SIZEOF_g_message == 1024

EBUSY == 16
EINVAL == 22
EFBIG == 27
EFAULT == 14

-----------------------------------------------------------------------------
(* Bounds of the model *)

\* processes that call into the device
NumProcs == 2
\* writes that pass the capacity check in one run
MaxWrites == 2
\* largest len a read asks for
MaxReadLen == 2
\* a faulting copy_from_user gets at most this many bytes before the fault
MaxReadable == 1

Procs == 1..NumProcs
NoOwner == 0

\* offsets the callers pass: the kernel hands the callbacks a position >= 0
Offsets == {0, 2, SIZEOF_g_message}
ReadLens == 0..MaxReadLen

AB == <<65, 66>>
XYZ == <<88, 89, 90>>
\* a message of NUL bytes that, written at offset 2, ends exactly at the end
\* of the buffer
BIG == [i \in 1..(SIZEOF_g_message - 2) |-> 0]
Datas == {<< >>, AB, XYZ, BIG}

\* what memory outside g_message may hold when read through g_message + offset
Stray == {0, 255}

Min(a, b) == IF a < b THEN a ELSE b

-----------------------------------------------------------------------------
(* C arithmetic *)

\* s > u where s is an ssize_t and u a size_t: the usual arithmetic conversions
\* turn s into a size_t, so a negative s becomes s + 2^64, which is above every
\* u below 2^63 (a len the kernel passes, or sizeof(g_message)).
SizeGt(s, u) == IF s < 0 THEN TRUE ELSE s > u

-----------------------------------------------------------------------------
(* The record of the last callback step *)

NoData == << >>

Rec(op, p, off, len, data, fault, ret, newoff, out) ==
    [op |-> op, proc |-> p, off |-> off, len |-> len, data |-> data,
     fault |-> fault, ret |-> ret, newoff |-> newoff, out |-> out]

InArray(i) == i >= 0 /\ i < SIZEOF_g_message

\* g_message is kept as its non-zero bytes: g_message[i] is 0 where the
\* function has no entry (a static array starts zeroed).
ByteAt(msg, i) == IF i \in DOMAIN msg THEN msg[i] ELSE 0

-----------------------------------------------------------------------------
(* chardev_open *)

\* (variant: the result of the trylock is not looked at, every open goes on)
mutex_trylock_unchecked(m) == TRUE

\* mutex_trylock(&mutex_chardev): 1 when the mutex was free and is now taken
mutex_trylock(m) == m = NoOwner

\* (variant: mutex_lock in place of mutex_trylock: the caller waits for the mutex)
chardev_open_lock(p) ==
    /\ pc[p] = "idle"
    /\ mutex_chardev = NoOwner
    /\ mutex_chardev' = p
    /\ pc' = [pc EXCEPT ![p] = "open_count"]
    /\ last' = Rec("trylock", p, 0, 0, NoData, FALSE, 1, 0, NoData)
    /\ UNCHANGED <<g_message, g_message_size, g_number_open, nwrites>>

\* if(!mutex_trylock(&mutex_chardev)) return -EBUSY;
chardev_open_trylock(p) ==
    /\ pc[p] = "idle"
    /\ IF ~mutex_trylock(mutex_chardev)
       THEN /\ last' = Rec("open", p, 0, 0, NoData, FALSE, -EBUSY, 0, NoData)
            /\ UNCHANGED <<mutex_chardev, pc>>
       ELSE /\ mutex_chardev' = p
            /\ pc' = [pc EXCEPT ![p] = "open_count"]
            /\ last' = Rec("trylock", p, 0, 0, NoData, FALSE, 1, 0, NoData)
    /\ UNCHANGED <<g_message, g_message_size, g_number_open, nwrites>>

\* (variant: the open is not counted)
chardev_open_count_skip(p) ==
    /\ pc[p] = "open_count"
    /\ pc' = [pc EXCEPT ![p] = "opened"]
    /\ last' = Rec("open", p, 0, 0, NoData, FALSE, 0, 0, NoData)
    /\ UNCHANGED <<g_message, g_message_size, g_number_open, mutex_chardev, nwrites>>

\* (variant: a successful open starts with an empty message)
chardev_open_count_reset(p) ==
    /\ pc[p] = "open_count"
    /\ g_number_open' = g_number_open + 1
    /\ g_message_size' = 0
    /\ pc' = [pc EXCEPT ![p] = "opened"]
    /\ last' = Rec("open", p, 0, 0, NoData, FALSE, 0, 0, NoData)
    /\ UNCHANGED <<g_message, mutex_chardev, nwrites>>

\* g_number_open++; return 0;
chardev_open_count(p) ==
    /\ pc[p] = "open_count"
    /\ g_number_open' = g_number_open + 1
    /\ pc' = [pc EXCEPT ![p] = "opened"]
    /\ last' = Rec("open", p, 0, 0, NoData, FALSE, 0, 0, NoData)
    /\ UNCHANGED <<g_message, g_message_size, mutex_chardev, nwrites>>

-----------------------------------------------------------------------------
(* chardev_release: called once for a file that chardev_open returned 0 for *)

\* (variant: release leaves g_number_open alone)
chardev_release_count_kept(p) ==
    /\ pc[p] = "opened"
    /\ pc' = [pc EXCEPT ![p] = "release_unlock"]
    /\ last' = Rec("release_count", p, 0, 0, NoData, FALSE, 0, 0, NoData)
    /\ UNCHANGED <<g_message, g_message_size, g_number_open, mutex_chardev, nwrites>>

\* g_number_open--;
chardev_release_count(p) ==
    /\ pc[p] = "opened"
    /\ g_number_open' = g_number_open - 1
    /\ pc' = [pc EXCEPT ![p] = "release_unlock"]
    /\ last' = Rec("release_count", p, 0, 0, NoData, FALSE, 0, 0, NoData)
    /\ UNCHANGED <<g_message, g_message_size, mutex_chardev, nwrites>>

\* (variant: the mutex is left locked)
chardev_release_no_unlock(p) ==
    /\ pc[p] = "release_unlock"
    /\ pc' = [pc EXCEPT ![p] = "idle"]
    /\ last' = Rec("release", p, 0, 0, NoData, FALSE, 0, 0, NoData)
    /\ UNCHANGED <<g_message, g_message_size, g_number_open, mutex_chardev, nwrites>>

\* mutex_unlock(&mutex_chardev); return 0;
chardev_release_unlock(p) ==
    /\ pc[p] = "release_unlock"
    /\ mutex_chardev' = NoOwner
    /\ pc' = [pc EXCEPT ![p] = "idle"]
    /\ last' = Rec("release", p, 0, 0, NoData, FALSE, 0, 0, NoData)
    /\ UNCHANGED <<g_message, g_message_size, g_number_open, nwrites>>

-----------------------------------------------------------------------------
(* chardev_read *)

\* (variant: len_msg counts one byte too many)
read_len_msg_off_by_one(size, off, len) ==
    LET len_msg == size - off + 1 IN
    IF len_msg = 0 THEN [k |-> "eof", n |-> 0]
    ELSE IF SizeGt(len_msg, len) THEN [k |-> "copy", n |-> len]
    ELSE IF len_msg < 0 THEN [k |-> "einval", n |-> 0]
    ELSE [k |-> "copy", n |-> len_msg]

\* (variant: every offset at or past g_message_size is taken as EOF)
read_len_msg_eof_past_end(size, off, len) ==
    LET len_msg == size - off IN
    IF len_msg <= 0 THEN [k |-> "eof", n |-> 0]
    ELSE IF SizeGt(len_msg, len) THEN [k |-> "copy", n |-> len]
    ELSE [k |-> "copy", n |-> len_msg]

\* The branches on len_msg = g_message_size - *offset: what the read does
\* ("eof", "einval" or "copy") and the len_msg it copies.
read_len_msg(size, off, len) ==
    LET len_msg == size - off IN
    IF len_msg = 0 THEN [k |-> "eof", n |-> 0]
    ELSE IF SizeGt(len_msg, len) THEN [k |-> "copy", n |-> len]
    ELSE IF len_msg < 0 THEN [k |-> "einval", n |-> 0]
    ELSE [k |-> "copy", n |-> len_msg]

\* (variant: the copy starts at g_message whatever the offset is)
copy_to_user_from_start(msg, off, n) ==
    { [i \in 1..n |-> IF InArray(i - 1) THEN ByteAt(msg, i - 1) ELSE s[i]] :
        s \in [1..n -> Stray] }

\* The byte strings copy_to_user(u_buffer, g_message + off, n) can deliver:
\* the array's bytes, and whatever lies outside it where the range leaves it.
copy_to_user(msg, off, n) ==
    { [i \in 1..n |-> IF InArray(off + i - 1) THEN ByteAt(msg, off + i - 1) ELSE s[i]] :
        s \in [1..n -> Stray] }

\* (variant: *offset is advanced before the result of the copy is looked at)
chardev_read_advance_first(p, off, len) ==
    /\ pc[p] = "opened"
    /\ LET r == read_len_msg(g_message_size, off, len) IN
       CASE r.k = "eof" ->
              last' = Rec("read", p, off, len, NoData, FALSE, 0, off, NoData)
         [] r.k = "einval" ->
              last' = Rec("read", p, off, len, NoData, FALSE, -EINVAL, off, NoData)
         [] r.k = "copy" ->
              \/ /\ r.n > 0
                 /\ last' = Rec("read", p, off, len, NoData, TRUE, -EFAULT, off + r.n, NoData)
              \/ \E out \in copy_to_user(g_message, off, r.n) :
                     last' = Rec("read", p, off, len, NoData, FALSE, r.n, off + r.n, out)
    /\ UNCHANGED <<g_message, g_message_size, g_number_open, mutex_chardev, pc, nwrites>>

chardev_read(p, off, len) ==
    /\ pc[p] = "opened"
    /\ LET r == read_len_msg(g_message_size, off, len) IN
       CASE r.k = "eof" ->
              last' = Rec("read", p, off, len, NoData, FALSE, 0, off, NoData)
         [] r.k = "einval" ->
              last' = Rec("read", p, off, len, NoData, FALSE, -EINVAL, off, NoData)
         [] r.k = "copy" ->
              \* err = copy_to_user(...): a copy of 0 bytes cannot fail
              \/ /\ r.n > 0
                 /\ last' = Rec("read", p, off, len, NoData, TRUE, -EFAULT, off, NoData)
              \/ \E out \in copy_to_user(g_message, off, r.n) :
                     last' = Rec("read", p, off, len, NoData, FALSE, r.n, off + r.n, out)
    /\ UNCHANGED <<g_message, g_message_size, g_number_open, mutex_chardev, pc, nwrites>>

-----------------------------------------------------------------------------
(* chardev_write *)

\* (variant: >= in place of >)
write_too_big_ge(off, len) == len + off >= SIZEOF_g_message

\* if(len_msg > sizeof(g_message)) with len_msg = len + *offset
write_too_big(off, len) == SizeGt(len + off, SIZEOF_g_message)

\* g_message after copy_from_user(g_message + off, u_buffer, len) when the
\* first k bytes of the user's buffer can be read: k = len is the whole copy;
\* with k < len the copy faults and the rest of the target is filled with zeros.
copy_from_user(msg, off, data, k) ==
    LET target == off..(off + Len(data) - 1)
        byte(i) == IF i \in target
                   THEN (IF i - off < k THEN data[i - off + 1] ELSE 0)
                   ELSE ByteAt(msg, i)
    IN  [i \in {j \in DOMAIN msg \cup target : byte(j) # 0} |-> byte(i)]

\* (variant: the size is the end position of the data written)
write_size_end_position(size, off, len) == off + len

\* (variant: the size is never reset)
write_size_no_reset(size, off, len) == size + len

\* (variant: the size is reset by every write)
write_size_always_reset(size, off, len) == len

\* if(*offset == 0) g_message_size = 0;  g_message_size += len;
write_size(size, off, len) == (IF off = 0 THEN 0 ELSE size) + len

\* (variant: the size survives a failed copy)
write_fault_size_kept(size) == size

\* g_message_size = 0; in the branch taken when copy_from_user fails
write_fault_size(size) == 0

\* how many bytes of the user's buffer can be read: all of them, or fewer
Readable(data) == {Len(data)} \cup {k \in 0..MaxReadable : k < Len(data)}

chardev_write(p, off, data) ==
    /\ pc[p] = "opened"
    /\ LET len == Len(data) IN
       IF write_too_big(off, len)
       THEN /\ last' = Rec("write", p, off, len, data, FALSE, -EFBIG, off, NoData)
            /\ UNCHANGED <<g_message, g_message_size, nwrites>>
       ELSE \E k \in Readable(data) :
            /\ nwrites < MaxWrites
            /\ nwrites' = nwrites + 1
            /\ g_message' = copy_from_user(g_message, off, data, k)
            /\ IF k < len
               THEN /\ g_message_size' = write_fault_size(g_message_size)
                    /\ last' = Rec("write", p, off, len, data, TRUE, -EFAULT, off, NoData)
               ELSE /\ g_message_size' = write_size(g_message_size, off, len)
                    /\ last' = Rec("write", p, off, len, data, FALSE, len, off + len, NoData)
    /\ UNCHANGED <<g_number_open, mutex_chardev, pc>>

-----------------------------------------------------------------------------

\* rd when no caller is reading the message back
NoLoop == [st |-> "none", d |-> NoData, k |-> 0, off |-> 0, acc |-> NoData, n |-> 0]

Init ==
    /\ g_message = [i \in {} |-> 0]
    /\ g_message_size = 0
    /\ g_number_open = 0
    /\ mutex_chardev = NoOwner
    /\ pc = [p \in Procs |-> "idle"]
    /\ last = Rec("none", 0, 0, 0, NoData, FALSE, 0, 0, NoData)
    /\ nwrites = 0
    /\ rd = NoLoop

Next ==
    \/ \E p \in Procs : chardev_open_trylock(p) /\ UNCHANGED rd
    \/ \E p \in Procs : chardev_open_count(p) /\ UNCHANGED rd
    \/ \E p \in Procs : chardev_release_count(p) /\ UNCHANGED rd
    \/ \E p \in Procs : chardev_release_unlock(p) /\ UNCHANGED rd
    \/ \E p \in Procs, off \in Offsets, len \in ReadLens :
          chardev_read(p, off, len) /\ UNCHANGED rd
    \/ \E p \in Procs, off \in Offsets, data \in Datas :
          chardev_write(p, off, data) /\ UNCHANGED rd

Spec == Init /\ [][Next]_vars

\* loff_t is signed: the read and write callbacks with a negative *offset.
\* Bytes a write puts outside the array are kept in g_message under their
\* index; bytes a read takes from outside it are arbitrary (copy_to_user).
NegOffsets == {-1}

NextSigned ==
    \/ Next
    \/ \E p \in Procs, off \in NegOffsets, len \in ReadLens :
          chardev_read(p, off, len) /\ UNCHANGED rd
    \/ \E p \in Procs, off \in NegOffsets, data \in Datas :
          chardev_write(p, off, data) /\ UNCHANGED rd

SpecSigned == Init /\ [][NextSigned]_vars

\* A caller that stores a message with one write at offset 0 and reads it
\* back in its session with reads of a fixed length k, each at the offset
\* the read before left: rd.acc is what it has received, rd.n the number of
\* reads that returned bytes.  A read whose copy faults is made again.
HELLO == <<72, 69, 76, 76, 79>>

LoopDatas == {<< >>, AB, XYZ, HELLO}

LoopKs == 1..MaxReadLen

ReadLoopStart(p, data, k) ==
    /\ chardev_write(p, 0, data)
    /\ rd' = IF last'.ret >= 0
             THEN [st |-> "reading", d |-> data, k |-> k, off |-> 0, acc |-> NoData, n |-> 0]
             ELSE NoLoop

ReadLoopStep(p) ==
    /\ rd.st = "reading"
    /\ chardev_read(p, rd.off, rd.k)
    /\ rd' = IF last'.ret > 0
             THEN [rd EXCEPT !.off = last'.newoff, !.acc = @ \o last'.out, !.n = @ + 1]
             ELSE IF last'.ret = 0 THEN [rd EXCEPT !.st = "eof"]
             ELSE IF last'.fault THEN rd
             ELSE [rd EXCEPT !.st = "failed"]

NextLoop ==
    \/ \E p \in Procs : chardev_open_trylock(p) /\ UNCHANGED rd
    \/ \E p \in Procs : chardev_open_count(p) /\ UNCHANGED rd
    \/ \E p \in Procs : chardev_release_count(p) /\ rd' = NoLoop
    \/ \E p \in Procs : chardev_release_unlock(p) /\ UNCHANGED rd
    \/ \E p \in Procs, off \in Offsets, data \in Datas :
          chardev_write(p, off, data) /\ rd' = NoLoop
    \/ \E p \in Procs, data \in LoopDatas, k \in LoopKs : ReadLoopStart(p, data, k)
    \/ \E p \in Procs : ReadLoopStep(p)

SpecLoop == Init /\ [][NextLoop]_vars

\* A caller that has taken the mutex in chardev_open goes on to the next
\* statement: nothing between mutex_trylock and return 0 waits for anything.
OpenProgress == \A p \in Procs : WF_vars(chardev_open_count(p) /\ UNCHANGED rd)

SpecFair == Init /\ [][Next]_vars /\ OpenProgress

-----------------------------------------------------------------------------
(* Properties *)

\* processes between a successful mutex_trylock and their mutex_unlock
Holders == {p \in Procs : pc[p] # "idle"}

WriteOk(l) == l.op = "write" /\ l.ret >= 0
Failed(l) == l.ret < 0

\* bytes msg[off .. off + n) as a sequence
ContentOf(msg, off, n) == [i \in 1..n |-> ByteAt(msg, off + i - 1)]
Content(off, n) == ContentOf(g_message, off, n)

TypeOK ==
    /\ DOMAIN g_message \subseteq 0..(SIZEOF_g_message - 1)
    /\ g_message_size \in Nat
    /\ g_number_open \in Nat
    /\ mutex_chardev \in Procs \cup {NoOwner}
    /\ pc \in [Procs -> {"idle", "open_count", "opened", "release_unlock"}]
    /\ nwrites \in 0..MaxWrites

\* C1: at most one caller holds the device at any instant; an open fails with
\* -EBUSY only while another caller holds it, so an open on the closed device
\* succeeds, and an open that succeeded is the only holder until its release.
C1_Exclusivity ==
    /\ Cardinality(Holders) <= 1
    /\ \A p \in Holders : mutex_chardev = p
    /\ (mutex_chardev = NoOwner => Holders = {})
    /\ (last.op = "open" /\ last.ret = -EBUSY =>
            mutex_chardev \in Procs \ {last.proc} /\ Holders = {mutex_chardev})
    /\ (last.op = "open" /\ last.ret = 0 => Holders = {last.proc})

\* one caller holds the device and the other's open has just failed with -EBUSY
C1_Witness ==
    /\ last.op = "open" /\ last.ret = -EBUSY
    /\ \E p \in Procs \ {last.proc} : pc[p] = "opened"

\* C2: g_message_size is at most sizeof(g_message) in every reachable state.
C2_LengthWithinCapacity == g_message_size <= SIZEOF_g_message

\* C3: a read of len > 0 at an offset greater than g_message_size (into a
\* user buffer that can be written) fails with -EINVAL, returns no bytes and
\* does not advance the offset.
C3_InvalidOffset ==
    (last.op = "read" /\ last.off > g_message_size /\ last.len > 0 /\ ~last.fault) =>
        /\ last.ret = -EINVAL
        /\ last.out = << >>
        /\ last.newoff = last.off

\* C4: a write with offset + len > sizeof(g_message) fails with -EFBIG and
\* leaves g_message, g_message_size and the offset as they were; a write with
\* offset + len = sizeof(g_message) is not rejected with -EFBIG.
C4_TooLarge ==
    [][ last'.op = "write" =>
          /\ (last'.off + last'.len > SIZEOF_g_message =>
                /\ last'.ret = -EFBIG
                /\ UNCHANGED <<g_message, g_message_size>>
                /\ last'.newoff = last'.off)
          /\ (last'.off + last'.len = SIZEOF_g_message => last'.ret # -EFBIG) ]_vars

\* a write past the end of a device that holds a message was rejected
C4_Witness ==
    /\ last.op = "write" /\ last.ret = -EFBIG
    /\ last.off + last.len > SIZEOF_g_message
    /\ g_message_size > 0
    /\ g_message # << >>

\* C5: a read at 0 <= offset < g_message_size whose copy does not fault returns
\* min(g_message_size - offset, len) bytes, equal to g_message[offset .. offset + n),
\* and the new offset is offset + n.
C5_ReadReturnsData ==
    (last.op = "read" /\ last.off >= 0 /\ last.off < g_message_size /\ ~last.fault) =>
        LET n == Min(g_message_size - last.off, last.len) IN
        /\ last.ret = n
        /\ Len(last.out) = n
        /\ \A i \in 1..n : /\ InArray(last.off + i - 1)
                           /\ last.out[i] = ByteAt(g_message, last.off + i - 1)
        /\ last.newoff = last.off + n

\* C6: a read at offset = g_message_size returns 0 (end of file, no error and
\* no bytes) for every len, and the offset stays.
C6_EofAtLength ==
    (last.op = "read" /\ last.off = g_message_size) =>
        /\ last.ret = 0
        /\ last.out = << >>
        /\ last.newoff = last.off
        /\ ~last.fault

\* after a write of N > 0 bytes at offset 0, a read of len > 0 at offset N
\* returned end of file
C6_Witness ==
    /\ last.op = "read" /\ last.ret = 0 /\ last.len > 0
    /\ last.off = g_message_size /\ g_message_size > 0
    /\ Content(0, g_message_size) \in {AB, XYZ}

\* C7 as stated: every read at offset >= 0 and offset >= g_message_size (into
\* a user buffer that can be written) yields end of file: zero bytes and no
\* error.
C7_EofPastLength ==
    (last.op = "read" /\ last.off >= 0 /\ last.off >= g_message_size /\ ~last.fault) =>
        last.ret = 0 /\ last.out = << >>

\* C7 as amended: a read at offset = g_message_size yields end of file (zero
\* bytes, no error); a read of len > 0 at an offset greater than
\* g_message_size does not: its result is not the end of file's 0.
C7_EofOnlyAtLength ==
    /\ (last.op = "read" /\ last.off >= 0 /\ last.off = g_message_size) =>
            last.ret = 0 /\ last.out = << >>
    /\ (last.op = "read" /\ last.off > g_message_size /\ last.len > 0) =>
            last.ret # 0

\* a read of len > 0 past the end of the message, inside the array
C7_Witness ==
    /\ last.op = "read" /\ last.len > 0
    /\ last.off > g_message_size /\ InArray(last.off)
    /\ last.ret # 0

\* C8: a failed open, read or write changes neither the mutex nor
\* g_number_open nor who is in a session; the release of the holder returns 0
\* and frees the mutex, and an open on the free mutex takes it.
C8_LockoutSafety ==
    [][ /\ (last'.op \in {"open", "read", "write"} /\ Failed(last') =>
                UNCHANGED <<mutex_chardev, g_number_open, pc>>)
        /\ (last'.op \in {"read", "write"} /\ Failed(last') =>
                pc'[last'.proc] = "opened" /\ mutex_chardev' = last'.proc)
        /\ (last'.op = "release" =>
                /\ last'.ret = 0
                /\ mutex_chardev' = NoOwner
                /\ pc'[last'.proc] = "idle")
        /\ (last'.op \in {"open", "trylock"} /\ mutex_chardev = NoOwner =>
                /\ last'.op = "trylock"
                /\ mutex_chardev' = last'.proc) ]_vars

\* an open has just succeeded on a device whose only write so far faulted
\* after one byte (size 0, that byte in the array): the write was in an earlier
\* session, which was released after the failure
C8_Witness ==
    /\ last.op = "open" /\ last.ret = 0
    /\ nwrites = 1 /\ g_message_size = 0
    /\ g_message # << >>

\* C9: a successful write at offset 0 leaves g_message_size = len and
\* g_message[0 .. len) = data, whatever the size was.
C9_WriteRestart ==
    (WriteOk(last) /\ last.off = 0) =>
        /\ g_message_size = last.len
        /\ Content(0, last.len) = last.data

\* "AB" was written at offset 0 over an earlier "XYZ": the size is 2, the Z is
\* still in the array
C9_Witness ==
    /\ WriteOk(last) /\ last.off = 0 /\ last.data = AB
    /\ g_message_size = 2
    /\ ByteAt(g_message, 2) = 90

\* C10: a successful write at offset 0 of d1, followed by a successful write of
\* d2 at the offset the first one returned, leaves g_message_size =
\* len(d1) + len(d2) and g_message[0 ..) = d1 then d2; each of the two returns
\* its len and advances the offset by it.
C10_ChainedWrite ==
    [][ (WriteOk(last) /\ last.off = 0 /\ WriteOk(last') /\ last'.off = last.newoff) =>
          /\ last.ret = last.len /\ last.newoff = last.len
          /\ last'.ret = last'.len /\ last'.newoff = last'.off + last'.len
          /\ g_message_size' = last.len + last'.len
          /\ ContentOf(g_message', 0, last.len + last'.len) = last.data \o last'.data ]_vars

\* "AB" at offset 0 and then "XYZ" at offset 2: "ABXYZ", size 5
C10_Witness ==
    /\ WriteOk(last) /\ last.off = 2 /\ last.data = XYZ
    /\ g_message_size = 5
    /\ Content(0, 5) = AB \o XYZ

-----------------------------------------------------------------------------
(* C11: a write whose copy from the caller's buffer fails returns -EFAULT  *)
(* and leaves g_message_size at 0 whatever it was before, at offset 0 and  *)
(* at a nonzero offset alike; the caller's offset is not advanced and the  *)
(* mutex, g_number_open and the sessions are untouched; a read at offset 0 *)
(* that comes next returns 0 bytes (end of stream).                        *)
C11_WriteCopyFault ==
    [][/\ (last'.op = "write" /\ last'.fault) =>
            /\ last'.ret = -EFAULT
            /\ g_message_size' = 0
            /\ last'.newoff = last'.off
            /\ UNCHANGED <<mutex_chardev, g_number_open, pc>>
       /\ (last.op = "write" /\ last.fault /\ last'.op = "read" /\ last'.off = 0) =>
            /\ last'.ret = 0
            /\ last'.out = << >>
            /\ last'.newoff = 0]_vars

\* AB was written whole at offset 0, then the copy of a write at offset 2 failed
C11_Witness ==
    /\ last.op = "write" /\ last.fault /\ last.off = 2
    /\ last.ret = -EFAULT /\ last.newoff = 2
    /\ Content(0, 2) = AB
    /\ g_message_size = 0

-----------------------------------------------------------------------------
(* C12: a read changes nothing in the device: g_message, g_message_size,   *)
(* the mutex, g_number_open and the sessions are the same after it, for    *)
(* every outcome (bytes, end of stream, -EINVAL, -EFAULT); the caller's    *)
(* offset moves only when bytes were copied, by the number returned, and   *)
(* stays where it was when the copy faults.                                *)
C12_ReadFrame ==
    [][last'.op = "read" =>
        /\ UNCHANGED <<g_message, g_message_size, mutex_chardev, g_number_open, pc>>
        /\ last'.ret >= 0 => last'.newoff = last'.off + last'.ret
        /\ last'.ret < 0 => last'.newoff = last'.off
        /\ last'.fault => (last'.ret = -EFAULT /\ last'.out = << >>)]_vars

\* the copy of a read of stored bytes faulted; the message is still there
C12_Witness ==
    /\ last.op = "read" /\ last.fault /\ last.off = 0 /\ last.len > 0
    /\ last.newoff = 0
    /\ g_message_size = 2
    /\ Content(0, 2) = AB

-----------------------------------------------------------------------------
(* C13: the message outlives the session: no step of an open (successful   *)
(* or refused) or of a release changes g_message or g_message_size, and a  *)
(* read at offset 0 that follows a successful open returns the bytes that  *)
(* were stored before that open.                                           *)
OpenCloseOps == {"trylock", "open", "release_count", "release"}

C13_ContentPersists ==
    [][/\ last'.op \in OpenCloseOps => UNCHANGED <<g_message, g_message_size>>
       /\ (/\ last.op = "open" /\ last.ret = 0
           /\ last'.op = "read" /\ last'.off = 0 /\ ~last'.fault) =>
              /\ last'.ret = Min(last'.len, g_message_size)
              /\ last'.out = Content(0, last'.ret)]_vars

\* an open has just succeeded on a device that holds AB from an earlier session
C13_Witness ==
    /\ last.op = "open" /\ last.ret = 0
    /\ g_message_size = 2
    /\ Content(0, 2) = AB

-----------------------------------------------------------------------------
(* C14: open never waits.  A caller that is not in a session can always    *)
(* take the first step of chardev_open, also while another caller holds    *)
(* the mutex; the refused open is over in that step (-EBUSY, the caller is *)
(* idle again and owns nothing); a release leaves the mutex free, it is    *)
(* not passed on to a caller that was refused; and an open that took the   *)
(* mutex returns, whether or not any holder ever releases.                 *)
OpenNeverDisabled ==
    \A p \in Procs : pc[p] = "idle" => ENABLED chardev_open_trylock(p)

RefusedAtOnce ==
    (last'.op = "open" /\ last'.ret = -EBUSY) =>
        /\ mutex_chardev # NoOwner
        /\ UNCHANGED <<mutex_chardev, pc>>
        /\ pc'[last'.proc] = "idle"

NotQueued ==
    last'.op = "release" => (mutex_chardev' = NoOwner /\ Holders' = {})

C14_OpenNeverBlocks ==
    /\ []OpenNeverDisabled
    /\ [][RefusedAtOnce /\ NotQueued]_vars
    /\ \A p \in Procs : (pc[p] = "open_count") ~> (pc[p] = "opened")

\* an open was refused while the holder was in the middle of its release
C14_Witness ==
    /\ last.op = "open" /\ last.ret = -EBUSY
    /\ pc[last.proc] = "idle"
    /\ \E p \in Procs \ {last.proc} : pc[p] = "release_unlock" /\ mutex_chardev = p

-----------------------------------------------------------------------------
-----------------------------------------------------------------------------
(* C16: a successful write of len bytes at an offset greater than 0 leaves *)
(* g_message_size at its value before the call plus len, whatever the      *)
(* offset is; the size is then not in general offset + len (the state of   *)
(* C16_Witness is reachable).                                              *)
C16_NonzeroOffsetAdds ==
    [][(WriteOk(last') /\ last'.off > 0) =>
            g_message_size' = g_message_size + last'.len]_vars

\* the only write so far put AB at offset 2: the size is 2, the data ends at 4
C16_Witness ==
    /\ WriteOk(last) /\ last.off = 2 /\ last.data = AB
    /\ nwrites = 1
    /\ g_message_size = 2
    /\ g_message_size # last.newoff
    /\ Content(2, 2) = AB

-----------------------------------------------------------------------------
(* C17: the bytes a read returns come from positions of g_message only:    *)
(* every position off .. off + ret - 1 of a read that returned ret > 0     *)
(* bytes is at least 0 and less than sizeof(g_message).                    *)
C17_ReadInsideBuffer ==
    (last.op = "read" /\ last.ret > 0) =>
        \A i \in 0..(last.ret - 1) : InArray(last.off + i)

-----------------------------------------------------------------------------
(* C18: a write that passes the capacity check copies into positions of    *)
(* g_message only (at least 0, less than sizeof(g_message)), for negative  *)
(* offsets too; a write whose target starts below 0 or ends above          *)
(* sizeof(g_message) returns -EFBIG.  (Stated for the writes whose user    *)
(* buffer is readable.)                                                    *)
C18_WriteInsideBuffer ==
    (last.op = "write" /\ ~last.fault) =>
        /\ last.ret # -EFBIG =>
              \A i \in 0..(last.len - 1) : InArray(last.off + i)
        /\ (last.off < 0 \/ last.off + last.len > SIZEOF_g_message) =>
              last.ret = -EFBIG

-----------------------------------------------------------------------------
(* C19: with release called once per successful open, by the caller that   *)
(* opened: g_number_open is 1 while a session is open and 0 while the      *)
(* mutex is free; it is only ever 0 or 1 (no decrement below 0); it is 1   *)
(* only while the mutex is held by the caller whose session it counts (the *)
(* increment comes after the lock is taken, the decrement before it is     *)
(* given back); and a refused open leaves it at the holder's value.        *)
C19_OpenCountTracksHolder ==
    /\ g_number_open \in {0, 1}
    /\ (\E p \in Procs : pc[p] = "opened") => g_number_open = 1
    /\ mutex_chardev = NoOwner => g_number_open = 0
    /\ g_number_open = 1 => (mutex_chardev \in Procs /\ pc[mutex_chardev] = "opened")
    /\ \A p \in Procs : pc[p] \in {"open_count", "release_unlock"} =>
            (mutex_chardev = p /\ g_number_open = 0)

\* a second caller's open was refused while the session of the first is counted
C19_Witness ==
    /\ last.op = "open" /\ last.ret = -EBUSY
    /\ g_number_open = 1
    /\ mutex_chardev \in Procs \ {last.proc}

-----------------------------------------------------------------------------
(* C20: after a successful write of d (N bytes) at offset 0, the session   *)
(* that reads from offset 0 with a fixed length k > 0, each read at the    *)
(* offset the last one returned, has received a prefix of d at every       *)
(* point, k bytes per read until d runs out; no read of the loop fails     *)
(* with -EINVAL; and when a read returns 0 bytes the session has received  *)
(* exactly d, in exactly ceil(N / k) reads that returned bytes.            *)
CeilDiv(a, b) == (a + b - 1) \div b

C20_ReadRoundTrip ==
    rd.st # "none" =>
        LET N == Len(rd.d) IN
        /\ rd.st # "failed"
        /\ rd.off = Min(rd.n * rd.k, N)
        /\ rd.acc = SubSeq(rd.d, 1, rd.off)
        /\ rd.n <= CeilDiv(N, rd.k)
        /\ rd.st = "eof" => (rd.acc = rd.d /\ rd.n = CeilDiv(N, rd.k))

\* XYZ has come back whole in two reads of length 2, and the third returned 0
C20_Witness ==
    /\ rd.st = "eof" /\ rd.d = XYZ /\ rd.k = 2
    /\ rd.n = 2 /\ rd.acc = XYZ
    /\ last.op = "read" /\ last.off = 3 /\ last.ret = 0

====
